---- MODULE Spec2Model ----
(***************************************************************************)
(* Openpilot-Deepdive: the truncated-BPTT training driver (src/main.py)    *)
(* and the Comma2k19 sequence dataset (src/data.py).                       *)
(*                                                                         *)
(* Three specifications share the module's variables:                      *)
(*   Spec      one worker's training loop, main() lines 144-192            *)
(*   SpecData  Comma2k19SequenceDataset.__getitem__                        *)
(*   SpecDist  the workers mp.spawn starts: setup() and the sharded        *)
(*             sampler of get_dataloader()                                 *)
(* Each specification leaves the variables of the other two untouched.     *)
(***************************************************************************)
EXTENDS Integers, Sequences, FiniteSets, TLC

(***************************************************************************)
(* Bounds of the model.                                                    *)
(***************************************************************************)
MaxTrunc == 3
MaxSeqLen == 7
MaxEpochs == 2
MaxBatches == 2
\* dataset attributes tried besides the program's own (40, 10)
MaxFix == 2
MaxNumPts == 2
\* frames a video may have beyond fix_seq_length + num_pts
MaxSlack == 2
\* args.gpus, len(train) and args.epochs of the distributed run
MaxWorld == 2
MaxSamples == 4
MaxDistEpochs == 2
\* args.batch_size
MaxBatchSize == 2
\* len(self.samples) of the planning dataset, how far a sequence's length is
\* from fix_seq_length, and the interpreter's limit on nested calls
MaxPlanSeqs == 2
MaxPlanSlack == 2
MaxDepth == 3

(***************************************************************************)
(* Program constants.                                                      *)
(***************************************************************************)
\* main.py:185  if (epoch + 1) % 10 == 0
ValEvery == 10
\* data.py:165  self.fix_seq_length = 40
FixSeqLength == 40
\* data.py:157  num_pts=10, the value get_dataloader() leaves in place
DefaultNumPts == 10
\* data.py:239  frame_positions_local[i: i+10]
LabelSlice == 10
\* data.py:119  self.fix_seq_length = 18
PlanFixSeqLength == 18
\* main.py:88  self.optimize_per_n_step = 40
OptimizePerNStep == 40
\* main.py:51  random.randint(30000, 50000)
MasterPortLow == 30000
MasterPortHigh == 50000

VARIABLES
    \* ---- training loop (main.py) ----
    pc,                 \* position of the worker in main()
    args_epochs,        \* args.epochs
    n_batches,          \* len(train_dataloader)
    optimize_per_n_step,\* model.module.optimize_per_n_step
    epoch,              \* the for-epoch loop variable
    batch_idx,          \* number of windows taken from the loader this epoch
    seq_length,         \* seq_labels.size(1) of the current window
    t,                  \* the for-t loop variable (next t to run)
    hidden,             \* [val, graph]: value tag and autograd history
    total_loss,         \* [isInt, terms, graph]: Python int 0 or a tensor
    ops,                \* optimizer-related calls made in this window, in order
    bwd_log,            \* one record per total_loss.backward() of this window
    val_skipped,        \* number of 'skipping val...' prints
    val_runs,           \* number of validation_step calls
    group,              \* the process group: "joined" or "destroyed"
    exc,                \* the exception that left main(), or "none"
    weights,            \* the model's parameters: "finite" or "nan"
    acc_finite,         \* whether total_loss holds a finite value
    last_update,        \* the last optimizer.step(): [made, finite, applied]
    term_div,           \* the divisor of each loss term added in this window
    \* ---- Comma2k19SequenceDataset (data.py) ----
    fix_seq_length,     \* self.fix_seq_length
    num_pts,            \* self.num_pts
    vid_opened,         \* cap.isOpened() right after the video is opened
    n_frames,           \* frames the video yields: len(imgs) before slicing
    pose_positions,     \* global_pose/frame_positions, one 3-vector per frame
    pose_orientations,  \* global_pose/frame_orientations, one quaternion per frame
    d_result,           \* outcome of the last __getitem__ call
    seq_start_idx,
    seq_end_idx,
    input_img,          \* seq_input_img: pairs of source frame indices
    frame_positions,    \* the sliced positions
    frame_orientations, \* the sliced orientations
    seq_future_poses,   \* the labels: one sequence of 3-vectors per anchor
    \* ---- the spawned workers (main.py) ----
    world_size,         \* args.gpus
    n_samples,          \* len(train)
    dist_epochs,        \* args.epochs
    randperm,           \* torch.randperm(n, generator seeded s), for each seed s
    w_pc,               \* each rank's position in main()
    master_addr,        \* each rank's os.environ['MASTER_ADDR']
    master_port,        \* each rank's os.environ['MASTER_PORT']
    w_epoch,            \* each rank's for-epoch loop variable
    train_sampler,      \* each rank's DistributedSampler: [num_replicas, rank, epoch]
    order,              \* the shuffled order each rank's sampler last derived
    shard,              \* the indices each rank's sampler last yielded
    \* ---- the workers' collectives (main.py) ----
    batch_size,         \* args.batch_size
    nccl_watchdog,      \* whether the torch build aborts a collective that timed out
    w_todo,             \* each rank's batches left in its loader this epoch
    w_seg,              \* each rank's optimizer updates left in its window
    w_calls,            \* each rank's gradient all-reduces entered so far
    w_steps,            \* each rank's optimizer steps made, by epoch
    \* ---- SequencePlanningDataset.__getitem__ (data.py) ----
    samples,            \* self.samples: each sequence as the list of its sample ids
    idx,                \* the idx of the innermost __getitem__ call
    depth,              \* the number of nested __getitem__ calls
    p_result,           \* "none" while the call runs, then "ok" or the error raised
    seq_samples,        \* the window returned
    seq_offset          \* the offset drawn for the window

trainVars == <<pc, args_epochs, n_batches, optimize_per_n_step, epoch, batch_idx,
               seq_length, t, hidden, total_loss, ops, bwd_log, val_skipped, val_runs,
               group, exc, weights, acc_finite, last_update, term_div>>

dataVars == <<fix_seq_length, num_pts, vid_opened, n_frames, pose_positions,
              pose_orientations, d_result, seq_start_idx, seq_end_idx, input_img,
              frame_positions, frame_orientations, seq_future_poses>>

distVars == <<world_size, n_samples, dist_epochs, randperm, w_pc, master_addr,
              master_port, w_epoch, train_sampler, order, shard>>

syncVars == <<batch_size, nccl_watchdog, w_todo, w_seg, w_calls, w_steps>>

planVars == <<samples, idx, depth, p_result, seq_samples, seq_offset>>

(***************************************************************************)
(* Autograd values.  A tensor is a value tag plus the set of time steps    *)
(* whose forward computation is in its autograd history.                   *)
(***************************************************************************)
\* hidden = torch.zeros((2, bs, 512)).cuda()
ZeroHidden == [val |-> 0, graph |-> {}]

\* total_loss = 0   (a Python int, not a tensor)
IntZero == [isInt |-> TRUE, terms |-> {}, graph |-> {}]

\* pred_cls, pred_trajectory, hidden = model(inputs, hidden)
\* the new hidden state depends on step s and on everything the old one did
Forward(h, s) == [val |-> s + 1, graph |-> h.graph \cup {s}]

\* a detach that keeps the history
Detach_keepsGraph(h) == h

\* hidden.clone().detach(): same value, no history
\* a detachment that zeroes the state
Detach_zeroes(h) == ZeroHidden

Detach(h) == [val |-> h.val, graph |-> {}]

\* total_loss += (cls_loss + alpha * reg_loss.mean()) / optimize_per_n_step
AddLoss(tl, h, s) ==
    [isInt |-> FALSE, terms |-> tl.terms \cup {s}, graph |-> tl.graph \cup h.graph]

\* (t + 1) % model.module.optimize_per_n_step == 0
IsBoundary(s) == (s + 1) % optimize_per_n_step = 0

\* a final optimizer step taken whatever the accumulator holds
FlushNeeded_always(tl) == TRUE

\* not isinstance(total_loss, int)
FlushNeeded(tl) == ~tl.isInt

\* optimizer.zero_grad(); total_loss.backward(); optimizer.step(); lr_scheduler.step()
\* the update made before the backward pass
OptimizerOps_stepBeforeBackward == <<"zero_grad", "step", "backward", "lr_step">>

\* an update with no backward pass of its own
OptimizerOps_noBackward == <<"zero_grad", "step", "lr_step">>

OptimizerOps == <<"zero_grad", "backward", "step", "lr_step">>

\* what one total_loss.backward() did: the loss terms summed and the steps reached
Backward(tl, s) == [at |-> s, terms |-> tl.terms, reach |-> tl.graph]

\* the accumulator kept after an optimizer step
LossAfterStep_kept(tl) == tl

\* total_loss = 0, line 177
LossAfterStep(tl) == IntZero

\* the divisor of a loss term, line 162
LossDivisor == optimize_per_n_step

\* the errors Comma2k19SequenceDataset.__getitem__ raises (data.py:198, 211, 215);
\* the loader passes them on to the loop that iterates it
FetchErrors == {"RuntimeError", "SequenceTooShort", "ValueError"}

\* no optimizer.step() made yet
NoUpdate == [made |-> FALSE, finite |-> TRUE, applied |-> FALSE]

\* optimizer.step() after total_loss.backward(), lines 174-175 and 181-182: the
\* update is applied whatever the loss holds
OptimizerStep(finite) == [made |-> TRUE, finite |-> finite, applied |-> TRUE]

\* parameters updated with the gradient of a non-finite loss are non-finite
WeightsAfter(w, upd) == IF upd.applied /\ ~upd.finite THEN "nan" ELSE w

\* the losses a forward pass may give: any with finite parameters, NaN otherwise
LossFinite(w) == IF w = "finite" THEN BOOLEAN ELSE {FALSE}

\* len(val_dataloader): get_dataloader builds the validation loader from the
\* same list file, sampler arguments and batch size as the training loader,
\* lines 61-69
ValBatches == n_batches

\* the block of lines 185-190 with no continue before the validation loop
ValidationBlock_noContinue(ep) ==
    IF (ep + 1) % ValEvery = 0
    THEN [skipped |-> 1, runs |-> ValBatches]
    ELSE [skipped |-> 0, runs |-> 0]

\* lines 185-190 at the end of epoch ep: the 'skipping val...' prints and the
\* validation_step calls made.  The continue of line 187 leaves the epoch
\* before the loop over val_dataloader, which is inside the same if
ValidationBlock(ep) ==
    IF (ep + 1) % ValEvery = 0
    THEN [skipped |-> 1, runs |-> 0]
    ELSE [skipped |-> 0, runs |-> 0]

\* args.epochs: short runs, and a run long enough to reach an epoch whose
\* number is a multiple of ValEvery
EpochCounts == (1..MaxEpochs) \cup {ValEvery}

(***************************************************************************)
(* Training loop, main.py:125-192, from the return of setup().             *)
(***************************************************************************)
TrainInit ==
    /\ pc = "epoch"
    /\ args_epochs \in EpochCounts
    /\ n_batches \in 1..MaxBatches
    /\ optimize_per_n_step \in 1..MaxTrunc
    /\ epoch = 0
    /\ batch_idx = 0
    /\ seq_length = 0
    /\ t = 0
    /\ hidden = ZeroHidden
    /\ total_loss = IntZero
    /\ ops = <<>>
    /\ bwd_log = <<>>
    /\ val_skipped = 0
    /\ val_runs = 0
    /\ group = "joined"
    /\ exc = "none"
    /\ weights = "finite"
    /\ acc_finite = TRUE
    /\ last_update = NoUpdate
    /\ term_div = <<>>

\* for epoch in range(args.epochs): train_dataloader.sampler.set_epoch(epoch)
EpochBegin ==
    /\ pc = "epoch"
    /\ epoch < args_epochs
    /\ pc' = "batch"
    /\ batch_idx' = 0
    /\ UNCHANGED <<args_epochs, n_batches, optimize_per_n_step, epoch, seq_length, t,
                   hidden, total_loss, ops, bwd_log, val_skipped, val_runs,
                   group, exc, weights, acc_finite, last_update, term_div>>

\* for batch_idx, data in enumerate(train_dataloader): lines 149-155
NextBatch ==
    /\ pc \in {"batch", "flushed"}
    /\ batch_idx < n_batches
    /\ \E len \in 1..MaxSeqLen : seq_length' = len
    /\ batch_idx' = batch_idx + 1
    /\ hidden' = ZeroHidden
    /\ total_loss' = IntZero
    /\ acc_finite' = TRUE
    /\ term_div' = <<>>
    /\ t' = 0
    /\ ops' = <<>>
    /\ bwd_log' = <<>>
    /\ pc' = "step"
    /\ UNCHANGED <<args_epochs, n_batches, optimize_per_n_step, epoch, val_skipped, val_runs,
                   group, exc, weights, last_update>>

\* line 149, the loader's fetch raises: nothing in main() catches it, so the
\* exception leaves main() and the worker ends; cleanup() at line 192 is not reached
FetchRaises ==
    /\ pc \in {"batch", "flushed"}
    /\ batch_idx < n_batches
    /\ \E err \in FetchErrors : exc' = err
    /\ pc' = "raised"
    /\ UNCHANGED <<args_epochs, n_batches, optimize_per_n_step, epoch, batch_idx, seq_length,
                   t, hidden, total_loss, ops, bwd_log, val_skipped, val_runs, group,
                   weights, acc_finite, last_update, term_div>>

\* one iteration of  for t in range(seq_length): lines 156-177
Step ==
    /\ pc = "step"
    /\ t < seq_length
    /\ \E finite \in LossFinite(weights) :
         LET h1 == Forward(hidden, t)
             tl1 == AddLoss(total_loss, h1, t)
             fin1 == acc_finite /\ finite
         IN  IF IsBoundary(t)
             THEN /\ hidden' = Detach(h1)
                  /\ ops' = ops \o <<"detach">> \o OptimizerOps
                  /\ bwd_log' = Append(bwd_log, Backward(tl1, t))
                  /\ last_update' = OptimizerStep(fin1)
                  /\ weights' = WeightsAfter(weights, OptimizerStep(fin1))
                  /\ total_loss' = LossAfterStep(tl1)
                  /\ acc_finite' = IF LossAfterStep(tl1).isInt THEN TRUE ELSE fin1
             ELSE /\ hidden' = h1
                  /\ total_loss' = tl1
                  /\ acc_finite' = fin1
                  /\ UNCHANGED <<ops, bwd_log, last_update, weights>>
    /\ term_div' = Append(term_div, LossDivisor)
    /\ t' = t + 1
    /\ UNCHANGED <<pc, args_epochs, n_batches, optimize_per_n_step, epoch, batch_idx,
                   seq_length, val_skipped, val_runs, group, exc>>

\* after the t loop: lines 179-183
Flush ==
    /\ pc = "step"
    /\ t = seq_length
    /\ IF FlushNeeded(total_loss)
       THEN /\ ops' = ops \o OptimizerOps
            /\ bwd_log' = Append(bwd_log, Backward(total_loss, t - 1))
            /\ last_update' = OptimizerStep(acc_finite)
            /\ weights' = WeightsAfter(weights, OptimizerStep(acc_finite))
       ELSE UNCHANGED <<ops, bwd_log, last_update, weights>>
    /\ pc' = "flushed"
    /\ UNCHANGED <<args_epochs, n_batches, optimize_per_n_step, epoch, batch_idx,
                   seq_length, t, hidden, total_loss, val_skipped, val_runs,
                   group, exc, acc_finite, term_div>>

\* the loader is exhausted: lines 185-190, then the next epoch
EpochEnd ==
    /\ pc \in {"batch", "flushed"}
    /\ batch_idx = n_batches
    /\ val_skipped' = val_skipped + ValidationBlock(epoch).skipped
    /\ val_runs' = val_runs + ValidationBlock(epoch).runs
    /\ epoch' = epoch + 1
    /\ pc' = "epoch"
    /\ UNCHANGED <<args_epochs, n_batches, optimize_per_n_step, batch_idx, seq_length, t,
                   hidden, total_loss, ops, bwd_log,
                   group, exc, weights, acc_finite, last_update, term_div>>

\* range(args.epochs) is exhausted: cleanup(), line 192
Finish ==
    /\ pc = "epoch"
    /\ epoch = args_epochs
    /\ group' = "destroyed"
    /\ pc' = "done"
    /\ UNCHANGED <<args_epochs, n_batches, optimize_per_n_step, epoch, batch_idx,
                   seq_length, t, hidden, total_loss, ops, bwd_log, val_skipped, val_runs,
                   exc, weights, acc_finite, last_update, term_div>>

(***************************************************************************)
(* Vectors, matrices and quaternions.  A 3-vector is a triple of integers, *)
(* a matrix a triple of rows.  A quaternion <<a, b, c, d>> is held in      *)
(* half units: it stands for (a + b i + c j + d k) / 2, so that the 24     *)
(* Hurwitz unit quaternions (a*a + b*b + c*c + d*d = 4) are exact and      *)
(* their rotation matrices have integer entries.                           *)
(***************************************************************************)
VecSub(u, v) == <<u[1] - v[1], u[2] - v[2], u[3] - v[3]>>

Dot(u, v) == u[1] * v[1] + u[2] * v[2] + u[3] * v[3]

\* ecef_from_local.T
Transpose(m) ==
    << <<m[1][1], m[2][1], m[3][1]>>,
       <<m[1][2], m[2][2], m[3][2]>>,
       <<m[1][3], m[2][3], m[3][3]>> >>

\* one row k of np.einsum('ij,kj->ki', m, d): out[k][i] = sum_j m[i][j] * d[k][j]
MatVec(m, v) == <<Dot(m[1], v), Dot(m[2], v), Dot(m[3], v)>>

\* .astype(np.float32): the model's coordinates are integers far below 2^24,
\* every one of which float32 holds exactly
Float32(v) == v

\* orient.rot_from_quat: the standard quaternion-to-rotation-matrix formula, no
\* normalisation; the division by 4 undoes the half units (exact for unit input)
rot_from_quat(q) ==
    LET a == q[1]  b == q[2]  c == q[3]  d == q[4]
    IN  << << (a*a + b*b - c*c - d*d) \div 4, (2 * (b*c - a*d)) \div 4, (2 * (a*c + b*d)) \div 4 >>,
           << (2 * (b*c + a*d)) \div 4, (a*a - b*b + c*c - d*d) \div 4, (2 * (c*d - a*b)) \div 4 >>,
           << (2 * (b*d - a*c)) \div 4, (2 * (a*b + c*d)) \div 4, (a*a - b*b - c*c + d*d) \div 4 >> >>

(***************************************************************************)
(* Python helpers.                                                         *)
(***************************************************************************)
Min(a, b) == IF a <= b THEN a ELSE b

\* a[lo:hi] for 0 <= lo: Python index j is TLA+ index j + 1; a slice that runs
\* past the end is cut short, never an error
PySlice(a, lo, hi) ==
    LET n == Min(hi, Len(a)) - lo
    IN  [k \in 1..(IF n > 0 THEN n ELSE 0) |-> a[lo + k]]

\* np.random.randint(low, high): the values it may return; none when low >= high,
\* where numpy raises ValueError
Randint(low, high) == low..(high - 1)

(***************************************************************************)
(* Comma2k19SequenceDataset.__getitem__, data.py:194-249.                  *)
(***************************************************************************)
\* the future horizon left out of the reservation
seq_length_delta_noHorizon(len) == len - fix_seq_length

\* seq_length - (self.fix_seq_length + self.num_pts), line 214
seq_length_delta(len) == len - (fix_seq_length + num_pts)

\* seq_length < self.fix_seq_length + self.num_pts, line 210
TooShort(len) == len < fix_seq_length + num_pts

\* the frames taken from start_index on, one frame late
FramePairs_fromStart(start, end) ==
    LET imgs == PySlice([j \in 1..n_frames |-> j - 1], start, end + 1)
    IN  [k \in 1..(Len(imgs) - 1) |-> <<imgs[k], imgs[k + 1]>>]

\* imgs[seq_start_idx-1: seq_end_idx], then
\* torch.cat((input_img[:-1], input_img[1:]), dim=1): lines 221-226
\* frames are named by their index in the video
FramePairs(start, end) ==
    LET imgs == PySlice([j \in 1..n_frames |-> j - 1], start - 1, end)
    IN  [k \in 1..(Len(imgs) - 1) |-> <<imgs[k], imgs[k + 1]>>]

\* the rotation matrix used as it is, not transposed
local_from_ecef_noTranspose(fo, i) == rot_from_quat(fo[i + 1])

\* local_from_ecef, lines 235-236
local_from_ecef(fo, i) == Transpose(rot_from_quat(fo[i + 1]))

\* the first pose of the window subtracted, not the anchor's
PositionDelta_fromFirst(fp, k, i) == VecSub(fp[k], fp[1])

\* frame_positions - frame_positions[i], line 237
PositionDelta(fp, k, i) == VecSub(fp[k], fp[i + 1])

\* frame_positions_local, line 237
frame_positions_local(fp, fo, i) ==
    [k \in 1..Len(fp) |-> Float32(MatVec(local_from_ecef(fo, i), PositionDelta(fp, k, i)))]

\* the loop of lines 233-240
future_poses(fp, fo) ==
    [a \in 1..fix_seq_length |->
        PySlice(frame_positions_local(fp, fo, a - 1), a - 1, (a - 1) + LabelSlice)]

(***************************************************************************)
(* The pose logs and videos __getitem__ is run on.                         *)
(***************************************************************************)
IdentityQuat == <<2, 0, 0, 0>>

\* identity, a turn of 120 degrees (its matrix is not symmetric), a half turn
TestQuats == {IdentityQuat, <<1, 1, 1, 1>>, <<0, 0, 0, 2>>}

TestSteps == {<<1, 0, 0>>, <<1, 2, -1>>}

TestOrigins == {<<0, 0, 0>>, <<7, -3, 2>>}

\* a path that alternates two steps and two orientations
PosePath(n, p0, v1, v2) ==
    [j \in 1..n |->
        LET m == j - 1
        IN  <<p0[1] + ((m + 1) \div 2) * v1[1] + (m \div 2) * v2[1],
              p0[2] + ((m + 1) \div 2) * v1[2] + (m \div 2) * v2[2],
              p0[3] + ((m + 1) \div 2) * v1[3] + (m \div 2) * v2[3]>>]

QuatPath(n, q1, q2) == [j \in 1..n |-> IF j % 2 = 1 THEN q1 ELSE q2]

\* (fix_seq_length, num_pts): small ones and the program's own
DataConfigs ==
    ((1..MaxFix) \X (1..MaxNumPts)) \cup {<<FixSeqLength, DefaultNumPts>>}

\* from one frame too few to MaxSlack frames spare, and fix_seq_length - 1
FrameCounts(fix, np) == {fix - 1} \cup ((fix + np - 1)..(fix + np + MaxSlack))

DataInit ==
    /\ \E cfg \in DataConfigs :
         /\ fix_seq_length = cfg[1]
         /\ num_pts = cfg[2]
         /\ n_frames \in FrameCounts(cfg[1], cfg[2])
    /\ vid_opened \in BOOLEAN
    /\ \E p0 \in TestOrigins, v1 \in TestSteps, v2 \in TestSteps :
         pose_positions = PosePath(n_frames, p0, v1, v2)
    /\ \E q1 \in TestQuats, q2 \in TestQuats :
         pose_orientations = QuatPath(n_frames, q1, q2)
    /\ d_result = "none"
    /\ seq_start_idx = 0
    /\ seq_end_idx = 0
    /\ input_img = <<>>
    /\ frame_positions = <<>>
    /\ frame_orientations = <<>>
    /\ seq_future_poses = <<>>

\* an exception leaves __getitem__: nothing is returned
Raise(err) ==
    /\ d_result' = err
    /\ seq_start_idx' = 0
    /\ seq_end_idx' = 0
    /\ input_img' = <<>>
    /\ frame_positions' = <<>>
    /\ frame_orientations' = <<>>
    /\ seq_future_poses' = <<>>

\* lines 217-249 for the drawn seq_length_delta
Return(drawn) ==
    LET start == drawn
        end == drawn + fix_seq_length
        fp == PySlice(pose_positions, start, end + num_pts)
        fo == PySlice(pose_orientations, start, end + num_pts)
    IN  /\ d_result' = "ok"
        /\ seq_start_idx' = start
        /\ seq_end_idx' = end
        /\ input_img' = FramePairs(start, end)
        /\ frame_positions' = fp
        /\ frame_orientations' = fo
        /\ seq_future_poses' = future_poses(fp, fo)

GetItem ==
    /\ IF ~vid_opened
       THEN Raise("RuntimeError")
       ELSE IF TooShort(n_frames)
       THEN Raise("SequenceTooShort")
       ELSE IF Randint(1, seq_length_delta(n_frames) + 1) = {}
       THEN Raise("ValueError")
       ELSE \E drawn \in Randint(1, seq_length_delta(n_frames) + 1) : Return(drawn)
    /\ UNCHANGED <<fix_seq_length, num_pts, vid_opened, n_frames, pose_positions,
                   pose_orientations>>

(***************************************************************************)
(* The workers mp.spawn starts, main.py:202-206: each runs main(rank, ...) *)
(* in a process of its own.                                                *)
(***************************************************************************)
Ranks == 0..(world_size - 1)

\* random.randint(a, b) of the standard library: a <= N <= b.  Each spawned
\* process has a generator of its own, seeded by the operating system; the
\* model draws the two ends of the range and the value next to the low end.
PortDraws == {MasterPortLow, MasterPortLow + 1, MasterPortHigh}

\* torch's DistributedSampler with drop_last=True: num_samples and total_size
SamplerTotalSize(n, num_replicas) == (n \div num_replicas) * num_replicas

\* torch's DistributedSampler.__iter__ with shuffle=True, seed=0, drop_last=True:
\* indices = randperm(seed + epoch)[:total_size][rank:total_size:num_replicas]
SamplerOrder(smp) == randperm[smp.epoch]

SamplerIter(smp) ==
    LET total == SamplerTotalSize(n_samples, smp.num_replicas)
        per == total \div smp.num_replicas
    IN  [k \in 1..per |-> SamplerOrder(smp)[smp.rank + (k - 1) * smp.num_replicas + 1]]

\* every worker's sampler built for rank 0
NewTrainSampler_rankZero(rank) == [num_replicas |-> world_size, rank |-> 0, epoch |-> 0]

\* every worker's sampler built for a group of rank + 1 workers
NewTrainSampler_replicasByRank(rank) == [num_replicas |-> rank + 1, rank |-> rank, epoch |-> 0]

\* DistributedSampler(train, num_replicas=world_size, rank=rank, shuffle=True,
\*                    drop_last=True): line 64
NewTrainSampler(rank) == [num_replicas |-> world_size, rank |-> rank, epoch |-> 0]

\* train_dataloader.sampler.set_epoch(epoch): line 147
SetEpoch(smp, ep) == [smp EXCEPT !.epoch = ep]

NoSampler == [num_replicas |-> 0, rank |-> 0, epoch |-> 0]

\* the orders the generator may produce for n samples: the identity, a
\* rotation and the reversal, as sequences of the indices 0..n-1
TestPerms(n) ==
    { [k \in 1..n |-> k - 1],
      [k \in 1..n |-> k % n],
      [k \in 1..n |-> n - k] }

DistInit ==
    /\ world_size \in 1..MaxWorld
    /\ n_samples \in 0..MaxSamples
    /\ dist_epochs \in 1..MaxDistEpochs
    /\ randperm \in [0..(dist_epochs - 1) -> TestPerms(n_samples)]
    /\ w_pc = [r \in Ranks |-> "spawned"]
    /\ master_addr = [r \in Ranks |-> ""]
    /\ master_port = [r \in Ranks |-> 0]
    /\ w_epoch = [r \in Ranks |-> 0]
    /\ train_sampler = [r \in Ranks |-> NoSampler]
    /\ order = [r \in Ranks |-> <<>>]
    /\ shard = [r \in Ranks |-> <<>>]

\* setup(rank, world_size): lines 49-57
Setup(r) ==
    /\ w_pc[r] = "spawned"
    /\ \E drawn \in PortDraws : master_port' = [master_port EXCEPT ![r] = drawn]
    /\ master_addr' = [master_addr EXCEPT ![r] = "localhost"]
    /\ w_pc' = [w_pc EXCEPT ![r] = "joined"]
    /\ UNCHANGED <<world_size, n_samples, dist_epochs, randperm, w_epoch, train_sampler,
                   order, shard>>

\* get_dataloader(rank, world_size, ...): lines 60-71, called at line 131
GetDataloader(r) ==
    /\ w_pc[r] = "joined"
    /\ train_sampler' = [train_sampler EXCEPT ![r] = NewTrainSampler(r)]
    /\ w_pc' = [w_pc EXCEPT ![r] = "epoch"]
    /\ UNCHANGED <<world_size, n_samples, dist_epochs, randperm, master_addr, master_port,
                   w_epoch, order, shard>>

\* lines 146-149: set_epoch(epoch), then the loader iterates the sampler
IterateEpoch(r) ==
    /\ w_pc[r] = "epoch"
    /\ w_epoch[r] < dist_epochs
    /\ LET smp == SetEpoch(train_sampler[r], w_epoch[r])
       IN  /\ train_sampler' = [train_sampler EXCEPT ![r] = smp]
           /\ order' = [order EXCEPT ![r] = SamplerOrder(smp)]
           /\ shard' = [shard EXCEPT ![r] = SamplerIter(smp)]
    /\ w_pc' = [w_pc EXCEPT ![r] = "iterating"]
    /\ UNCHANGED <<world_size, n_samples, dist_epochs, randperm, master_addr, master_port,
                   w_epoch>>

\* the loader is exhausted: the next epoch
EpochDone(r) ==
    /\ w_pc[r] = "iterating"
    /\ w_epoch' = [w_epoch EXCEPT ![r] = w_epoch[r] + 1]
    /\ w_pc' = [w_pc EXCEPT ![r] = "epoch"]
    /\ UNCHANGED <<world_size, n_samples, dist_epochs, randperm, master_addr, master_port,
                   train_sampler, order, shard>>

\* cleanup(): line 192
Cleanup(r) ==
    /\ w_pc[r] = "epoch"
    /\ w_epoch[r] = dist_epochs
    /\ w_pc' = [w_pc EXCEPT ![r] = "done"]
    /\ UNCHANGED <<world_size, n_samples, dist_epochs, randperm, master_addr, master_port,
                   w_epoch, train_sampler, order, shard>>

(***************************************************************************)
(* The workers' collectives: the gradient all-reduce of every backward     *)
(* pass of the DistributedDataParallel model (main.py:141, 174, 181), from *)
(* the return of setup() in every worker.                                  *)
(***************************************************************************)
\* len(DataLoader(train, batch_size, sampler=train_sampler)), line 68:
\* drop_last is left False, so a last short batch counts
LoaderBatches(n) == (n + batch_size - 1) \div batch_size

\* the optimizer updates of one window of len steps with truncation length n:
\* one per t with (t + 1) % n = 0, and the final one when total_loss is not
\* the int 0 after the loop, lines 171-183
WindowUpdates(len, n) ==
    Cardinality({s \in 0..(len - 1) : (s + 1) % n = 0})
        + (IF len > 0 /\ len % n # 0 THEN 1 ELSE 0)

\* positions of a worker that has left main() or will never move again
Failed == {"hung", "raised", "killed", "aborted"}

\* none of the workers has hung or ended abnormally
NoFailure == \A r \in Ranks : w_pc[r] \notin Failed

SyncInit ==
    /\ world_size \in 1..MaxWorld
    /\ n_samples \in 0..MaxSamples
    /\ dist_epochs \in 1..MaxDistEpochs
    /\ randperm = [e \in 0..(dist_epochs - 1) |-> [k \in 1..n_samples |-> k - 1]]
    /\ w_pc = [r \in Ranks |-> "joined"]
    /\ master_addr = [r \in Ranks |-> "localhost"]
    /\ master_port = [r \in Ranks |-> MasterPortLow]
    /\ w_epoch = [r \in Ranks |-> 0]
    /\ train_sampler = [r \in Ranks |-> NoSampler]
    /\ order = [r \in Ranks |-> <<>>]
    /\ shard = [r \in Ranks |-> <<>>]
    /\ batch_size \in 1..MaxBatchSize
    /\ nccl_watchdog \in BOOLEAN
    /\ w_todo = [r \in Ranks |-> 0]
    /\ w_seg = [r \in Ranks |-> 0]
    /\ w_calls = [r \in Ranks |-> 0]
    /\ w_steps = [r \in Ranks |-> [e \in 0..(dist_epochs - 1) |-> 0]]

\* line 131
SyncGetDataloader(r) ==
    /\ GetDataloader(r)
    /\ UNCHANGED syncVars

\* lines 146-149: the loader starts an epoch of len(train_dataloader) batches
SyncIterateEpoch(r) ==
    /\ IterateEpoch(r)
    /\ w_todo' = [w_todo EXCEPT ![r] = LoaderBatches(Len(SamplerIter(SetEpoch(train_sampler[r], w_epoch[r]))))]
    /\ UNCHANGED <<batch_size, nccl_watchdog, w_seg, w_calls, w_steps>>

\* line 149: the loader yields a batch of windows of fix_seq_length steps
FetchBatch(r) ==
    /\ w_pc[r] = "iterating"
    /\ w_todo[r] > 0
    /\ w_todo' = [w_todo EXCEPT ![r] = w_todo[r] - 1]
    /\ w_seg' = [w_seg EXCEPT ![r] = WindowUpdates(FixSeqLength, OptimizePerNStep)]
    /\ w_pc' = [w_pc EXCEPT ![r] = "window"]
    /\ UNCHANGED <<world_size, n_samples, dist_epochs, randperm, master_addr, master_port,
                   w_epoch, train_sampler, order, shard,
                   batch_size, nccl_watchdog, w_calls, w_steps>>

\* total_loss.backward(), lines 174 and 181: the worker enters the all-reduce
EnterAllReduce(r) ==
    /\ w_pc[r] = "window"
    /\ w_seg[r] > 0
    /\ w_calls' = [w_calls EXCEPT ![r] = w_calls[r] + 1]
    /\ w_pc' = [w_pc EXCEPT ![r] = "allreduce"]
    /\ UNCHANGED <<world_size, n_samples, dist_epochs, randperm, master_addr, master_port,
                   w_epoch, train_sampler, order, shard,
                   batch_size, nccl_watchdog, w_todo, w_seg, w_steps>>

\* the all-reduce returns once every worker has entered it; then
\* optimizer.step(), lines 175 and 182
AllReduceDone(r) ==
    /\ w_pc[r] = "allreduce"
    /\ \A q \in Ranks : w_calls[q] >= w_calls[r]
    /\ w_steps' = [w_steps EXCEPT ![r][w_epoch[r]] = @ + 1]
    /\ w_seg' = [w_seg EXCEPT ![r] = w_seg[r] - 1]
    /\ w_pc' = [w_pc EXCEPT ![r] = IF w_seg[r] > 1 THEN "window" ELSE "iterating"]
    /\ UNCHANGED <<world_size, n_samples, dist_epochs, randperm, master_addr, master_port,
                   w_epoch, train_sampler, order, shard,
                   batch_size, nccl_watchdog, w_todo, w_calls>>

\* the loader is exhausted: lines 185-190, then the next epoch
SyncEpochDone(r) ==
    /\ w_todo[r] = 0
    /\ EpochDone(r)
    /\ UNCHANGED syncVars

\* line 192
SyncCleanup(r) ==
    /\ Cleanup(r)
    /\ UNCHANGED syncVars

\* a worker stops moving while it fetches a batch (a read that never returns);
\* one worker at most fails in a run
WorkerHangs(r) ==
    /\ NoFailure
    /\ w_pc[r] = "iterating"
    /\ w_todo[r] > 0
    /\ w_pc' = [w_pc EXCEPT ![r] = "hung"]
    /\ UNCHANGED <<world_size, n_samples, dist_epochs, randperm, master_addr, master_port,
                   w_epoch, train_sampler, order, shard, syncVars>>

\* line 149: the fetch raises and the exception ends the worker
WorkerRaises(r) ==
    /\ NoFailure
    /\ w_pc[r] = "iterating"
    /\ w_todo[r] > 0
    /\ w_pc' = [w_pc EXCEPT ![r] = "raised"]
    /\ UNCHANGED <<world_size, n_samples, dist_epochs, randperm, master_addr, master_port,
                   w_epoch, train_sampler, order, shard, syncVars>>

\* mp.spawn(main, ..., nprocs=world_size), lines 202-206: it joins the workers,
\* and when one has ended with an exception it terminates the others and
\* raises in the parent
SpawnTerminates ==
    /\ \E q \in Ranks : w_pc[q] = "raised"
    /\ \E q \in Ranks : w_pc[q] \notin {"raised", "killed", "done"}
    /\ w_pc' = [q \in Ranks |-> IF w_pc[q] \in {"raised", "done"} THEN w_pc[q] ELSE "killed"]
    /\ UNCHANGED <<world_size, n_samples, dist_epochs, randperm, master_addr, master_port,
                   w_epoch, train_sampler, order, shard, syncVars>>

\* dist.init_process_group('nccl', rank=rank, world_size=world_size), line 56,
\* passes no timeout and sets no error handling: whether a worker waiting in an
\* all-reduce that a peer will never enter is aborted after the library's
\* default timeout depends on the torch build
WatchdogAborts(r) ==
    /\ nccl_watchdog
    /\ w_pc[r] = "allreduce"
    /\ \E q \in Ranks : w_calls[q] < w_calls[r] /\ w_pc[q] \in Failed \cup {"done"}
    /\ w_pc' = [w_pc EXCEPT ![r] = "aborted"]
    /\ UNCHANGED <<world_size, n_samples, dist_epochs, randperm, master_addr, master_port,
                   w_epoch, train_sampler, order, shard, syncVars>>

(***************************************************************************)
(* SequencePlanningDataset.__getitem__, data.py:122-153.  A sample is      *)
(* named by its position in its sequence.                                  *)
(***************************************************************************)
\* the lengths a sequence of the dataset may have
PlanLengths == (PlanFixSeqLength - MaxPlanSlack)..(PlanFixSeqLength + MaxPlanSlack)

\* a sequence of len samples
PlanSequence(len) == [j \in 1..len |-> j - 1]

\* np.random.randint(0, len(self.samples)), line 127
RetryDraws == Randint(0, Len(samples))

PlanInit ==
    /\ \E n \in 1..MaxPlanSeqs :
         /\ samples \in [1..n -> {PlanSequence(len) : len \in PlanLengths}]
         /\ idx \in 0..(n - 1)
    /\ depth = 1
    /\ p_result = "none"
    /\ seq_samples = <<>>
    /\ seq_offset = 0

\* one call of __getitem__(idx): lines 122-153.  The retry of line 127 is a
\* nested call, which the interpreter refuses past its recursion limit
PlanGetItem ==
    /\ p_result = "none"
    /\ LET seq == samples[idx + 1]
           L == Len(seq)   \* seq_length, line 124
       IN  IF L < PlanFixSeqLength
           THEN IF depth >= MaxDepth
                THEN /\ p_result' = "RecursionError"
                     /\ UNCHANGED <<idx, depth, seq_samples, seq_offset>>
                ELSE /\ \E drawn \in RetryDraws : idx' = drawn
                     /\ depth' = depth + 1
                     /\ UNCHANGED <<p_result, seq_samples, seq_offset>>
           ELSE IF L > PlanFixSeqLength
           THEN \E drawn \in Randint(0, (L - PlanFixSeqLength) + 1) :
                    /\ seq_offset' = drawn
                    /\ seq_samples' = PySlice(seq, drawn, PlanFixSeqLength + drawn)
                    /\ p_result' = "ok"
                    /\ UNCHANGED <<idx, depth>>
           ELSE /\ seq_offset' = 0
                /\ seq_samples' = seq
                /\ p_result' = "ok"
                /\ UNCHANGED <<idx, depth>>
    /\ UNCHANGED samples

(***************************************************************************)
(* Specifications.                                                         *)
(***************************************************************************)
vars == <<trainVars, dataVars, distVars, syncVars, planVars>>

\* the variables of a part that a specification does not run
TrainIdle ==
    /\ pc = "idle"
    /\ args_epochs = 0
    /\ n_batches = 0
    /\ optimize_per_n_step = 1
    /\ epoch = 0
    /\ batch_idx = 0
    /\ seq_length = 0
    /\ t = 0
    /\ hidden = ZeroHidden
    /\ total_loss = IntZero
    /\ ops = <<>>
    /\ bwd_log = <<>>
    /\ val_skipped = 0
    /\ val_runs = 0
    /\ group = "none"
    /\ exc = "none"
    /\ weights = "finite"
    /\ acc_finite = TRUE
    /\ last_update = NoUpdate
    /\ term_div = <<>>

DataIdle ==
    /\ fix_seq_length = FixSeqLength
    /\ num_pts = DefaultNumPts
    /\ vid_opened = FALSE
    /\ n_frames = 0
    /\ pose_positions = <<>>
    /\ pose_orientations = <<>>
    /\ d_result = "none"
    /\ seq_start_idx = 0
    /\ seq_end_idx = 0
    /\ input_img = <<>>
    /\ frame_positions = <<>>
    /\ frame_orientations = <<>>
    /\ seq_future_poses = <<>>

DistIdle ==
    /\ world_size = 0
    /\ n_samples = 0
    /\ dist_epochs = 0
    /\ randperm = <<>>
    /\ w_pc = <<>>
    /\ master_addr = <<>>
    /\ master_port = <<>>
    /\ w_epoch = <<>>
    /\ train_sampler = <<>>
    /\ order = <<>>
    /\ shard = <<>>

SyncIdle ==
    /\ batch_size = 0
    /\ nccl_watchdog = FALSE
    /\ w_todo = <<>>
    /\ w_seg = <<>>
    /\ w_calls = <<>>
    /\ w_steps = <<>>

PlanIdle ==
    /\ samples = <<>>
    /\ idx = 0
    /\ depth = 0
    /\ p_result = "none"
    /\ seq_samples = <<>>
    /\ seq_offset = 0

TrainNext ==
    /\ EpochBegin \/ NextBatch \/ FetchRaises \/ Step \/ Flush \/ EpochEnd \/ Finish
    /\ UNCHANGED <<dataVars, distVars, syncVars, planVars>>

Init == TrainInit /\ DataIdle /\ DistIdle /\ SyncIdle /\ PlanIdle

Next == TrainNext

Spec == Init /\ [][Next]_vars

DataNext ==
    /\ GetItem
    /\ UNCHANGED <<trainVars, distVars, syncVars, planVars>>

InitData == TrainIdle /\ DataInit /\ DistIdle /\ SyncIdle /\ PlanIdle

SpecData == InitData /\ [][DataNext]_vars

DistNext ==
    /\ \E r \in Ranks :
         Setup(r) \/ GetDataloader(r) \/ IterateEpoch(r) \/ EpochDone(r) \/ Cleanup(r)
    /\ UNCHANGED <<trainVars, dataVars, syncVars, planVars>>

InitDist == TrainIdle /\ DataIdle /\ DistInit /\ SyncIdle /\ PlanIdle

SpecDist == InitDist /\ [][DistNext]_vars

\* the steps of a run in which no worker fails
SyncRun ==
    \E r \in Ranks :
        \/ SyncGetDataloader(r)
        \/ SyncIterateEpoch(r)
        \/ FetchBatch(r)
        \/ EnterAllReduce(r)
        \/ AllReduceDone(r)
        \/ SyncEpochDone(r)
        \/ SyncCleanup(r)

\* a worker fails, and what follows from it
SyncFailure ==
    \/ \E r \in Ranks : WorkerHangs(r) \/ WorkerRaises(r) \/ WatchdogAborts(r)
    \/ SpawnTerminates

SyncNext ==
    /\ SyncRun \/ SyncFailure
    /\ UNCHANGED <<trainVars, dataVars, planVars>>

InitSync == TrainIdle /\ DataIdle /\ SyncInit /\ PlanIdle

SpecSync == InitSync /\ [][SyncNext]_vars

PlanNext ==
    /\ PlanGetItem
    /\ UNCHANGED <<trainVars, dataVars, distVars, syncVars>>

InitPlan == TrainIdle /\ DataIdle /\ DistIdle /\ SyncIdle /\ PlanInit

SpecPlan == InitPlan /\ [][PlanNext]_vars

(***************************************************************************)
(* Properties.                                                             *)
(***************************************************************************)
Ceil(a, b) == (a + b - 1) \div b

Range(f) == {f[k] : k \in DOMAIN f}

\* the steps of the k-th segment of the current window
Segment(k) == {s \in 0..(seq_length - 1) : s \div optimize_per_n_step = k - 1}

\* optimizer.step() calls made so far in the current window
StepCount == Cardinality({k \in 1..Len(ops) : ops[k] = "step"})

\* C1: one window takes exactly ceil(seq_length / truncation_length) optimizer
\* steps: one per full segment, one for a final partial segment, none extra
\* when seq_length is a multiple; each backward pass sums its own segment.
C1_OptimizerStepsPerWindow ==
    /\ pc = "step" => StepCount = t \div optimize_per_n_step
    /\ pc = "flushed" =>
         /\ StepCount = Ceil(seq_length, optimize_per_n_step)
         /\ Len(bwd_log) = StepCount
         /\ \A k \in 1..Len(bwd_log) : bwd_log[k].terms = Segment(k)

\* a finished window of length 7 with truncation length 3: segments 3, 3, 1
C1_Witness ==
    /\ pc = "flushed"
    /\ seq_length = 7
    /\ optimize_per_n_step = 3
    /\ StepCount = 3
    /\ [k \in 1..Len(bwd_log) |-> Cardinality(bwd_log[k].terms)] = <<3, 3, 1>>

\* C2: every window __getitem__ returns has start_index >= 1,
\* end_index - start_index = fix_seq_length and end_index + num_pts <= the
\* length of the source sequence.
C2_WindowInBounds ==
    d_result = "ok" =>
        /\ seq_start_idx >= 1
        /\ seq_end_idx - seq_start_idx = fix_seq_length
        /\ seq_end_idx + num_pts <= n_frames

\* a window that is not the first possible one and ends at the last frame it may
C2_Witness ==
    /\ d_result = "ok"
    /\ seq_start_idx >= 2
    /\ seq_end_idx + num_pts = n_frames

\* C3: on a video that opens, __getitem__ fails with the sequence-too-short
\* error exactly when sequence_length < fix_seq_length + num_pts, and returns a
\* window for every sequence_length >= fix_seq_length + num_pts.
C3_FailsExactlyWhenTooShort ==
    (vid_opened /\ d_result # "none") =>
        /\ (d_result = "SequenceTooShort") <=> (n_frames < fix_seq_length + num_pts)
        /\ (n_frames >= fix_seq_length + num_pts) => d_result = "ok"

\* C4: the hidden state's autograd history never spans more than
\* truncation_length steps, and no backward pass reaches a step of a segment
\* whose optimizer step was already taken.
C4_GraphDepthBounded ==
    /\ Cardinality(hidden.graph) <= optimize_per_n_step
    /\ Cardinality(total_loss.graph) <= optimize_per_n_step
    /\ \A k \in 1..Len(bwd_log) :
         /\ Cardinality(bwd_log[k].reach) <= optimize_per_n_step
         /\ \A j \in 1..(k - 1) : bwd_log[k].reach \cap (0..bwd_log[j].at) = {}

\* a second full segment was backpropagated and a third is under way
C4_Witness ==
    /\ pc = "step"
    /\ optimize_per_n_step >= 2
    /\ Len(bwd_log) >= 2
    /\ Cardinality(bwd_log[2].reach) = optimize_per_n_step
    /\ hidden.graph # {}

\* C5: workers iterating the same epoch have set that epoch on their sampler,
\* derive the same shuffled order, and, when their ranks differ, own disjoint
\* shards.
C5_ShardsDisjoint ==
    \A r1 \in Ranks, r2 \in Ranks :
        (w_pc[r1] = "iterating" /\ w_pc[r2] = "iterating" /\ w_epoch[r1] = w_epoch[r2]) =>
            /\ train_sampler[r1].epoch = w_epoch[r1]
            /\ order[r1] = order[r2]
            /\ r1 # r2 => Range(shard[r1]) \cap Range(shard[r2]) = {}

\* two workers iterate the second epoch, each with a shard of two samples
C5_Witness ==
    /\ world_size >= 2
    /\ w_pc[0] = "iterating" /\ w_pc[1] = "iterating"
    /\ w_epoch[0] = 1 /\ w_epoch[1] = 1
    /\ Len(shard[0]) = 2 /\ Len(shard[1]) = 2

\* the rotation matrix of anchor i's orientation (i counted from 0)
AnchorRot(i) == rot_from_quat(frame_orientations[i + 1])

\* positions[i + k] - positions[i] in the window (i, k counted from 0)
WindowDelta(i, k) == VecSub(frame_positions[i + k + 1], frame_positions[i + 1])

\* C6 as stated: the k-th point of anchor i's label, k in 0..num_pts-1, is R_i
\* itself applied to positions[i+k] - positions[i].
C6_LabelIsRotationOfDelta ==
    d_result = "ok" =>
        \A i \in 0..(fix_seq_length - 1), k \in 0..(num_pts - 1) :
            seq_future_poses[i + 1][k + 1] = MatVec(AnchorRot(i), WindowDelta(i, k))

\* C6 amended: every point the label of anchor i holds (which includes every k
\* in 0..num_pts-1 when num_pts <= 10) is the transpose of R_i applied to
\* positions[i+k] - positions[i].
C6_LabelIsTransposedRotationOfDelta ==
    d_result = "ok" =>
        \A i \in 0..(fix_seq_length - 1) :
            /\ num_pts <= LabelSlice => Len(seq_future_poses[i + 1]) >= num_pts
            /\ \A k \in 0..(Len(seq_future_poses[i + 1]) - 1) :
                 seq_future_poses[i + 1][k + 1] =
                     MatVec(Transpose(AnchorRot(i)), WindowDelta(i, k))

\* an anchor whose rotation is not symmetric and moves its second point
C6_Witness ==
    /\ d_result = "ok"
    /\ \E i \in 0..(fix_seq_length - 1) :
         /\ Len(seq_future_poses[i + 1]) >= 2
         /\ MatVec(AnchorRot(i), WindowDelta(i, 1))
              # MatVec(Transpose(AnchorRot(i)), WindowDelta(i, 1))
         /\ seq_future_poses[i + 1][2] = MatVec(Transpose(AnchorRot(i)), WindowDelta(i, 1))

\* C7: the label of every anchor i in 0..fix_seq_length-1 has exactly num_pts
\* points, and i + num_pts never exceeds the length of the sliced pose sequence.
C7_LabelHasNumPtsPoints ==
    d_result = "ok" =>
        \A i \in 0..(fix_seq_length - 1) :
            /\ Len(seq_future_poses[i + 1]) = num_pts
            /\ i + num_pts <= Len(frame_positions)

\* C8: the first point of every anchor's label is the zero vector.
C8_FirstPointIsZero ==
    d_result = "ok" =>
        \A i \in 0..(fix_seq_length - 1) :
            /\ Len(seq_future_poses[i + 1]) >= 1
            /\ seq_future_poses[i + 1][1] = <<0, 0, 0>>

\* a later anchor, away from the first pose and turned, still starts at zero
C8_Witness ==
    /\ d_result = "ok"
    /\ fix_seq_length >= 2
    /\ frame_positions[2] # frame_positions[1]
    /\ frame_positions[2] # <<0, 0, 0>>
    /\ frame_orientations[2] # IdentityQuat
    /\ seq_future_poses[2][1] = <<0, 0, 0>>

\* the Hamilton product g * q, both in half units
QuatMul(g, q) ==
    << (g[1]*q[1] - g[2]*q[2] - g[3]*q[3] - g[4]*q[4]) \div 2,
       (g[1]*q[2] + g[2]*q[1] + g[3]*q[4] - g[4]*q[3]) \div 2,
       (g[1]*q[3] - g[2]*q[4] + g[3]*q[1] + g[4]*q[2]) \div 2,
       (g[1]*q[4] + g[2]*q[3] - g[3]*q[2] + g[4]*q[1]) \div 2 >>

VecAdd(u, v) == <<u[1] + v[1], u[2] + v[2], u[3] + v[3]>>

\* the rigid transform x -> G x + tr, G the rotation of g, applied to a pose log
RigidPositions(g, tr, ps) == [k \in 1..Len(ps) |-> VecAdd(MatVec(rot_from_quat(g), ps[k]), tr)]

RigidOrientations(g, qs) == [k \in 1..Len(qs) |-> QuatMul(g, qs[k])]

\* the labels of the window drawn, had the pose log been transformed first
LabelsAfterRigid(g, tr) ==
    future_poses(
        PySlice(RigidPositions(g, tr, pose_positions), seq_start_idx, seq_end_idx + num_pts),
        PySlice(RigidOrientations(g, pose_orientations), seq_start_idx, seq_end_idx + num_pts))

\* C9: a rigid transform applied to every position and orientation of the pose
\* log leaves every anchor's label unchanged.
C9_RigidInvariance ==
    d_result = "ok" =>
        \A g \in TestQuats, tr \in TestOrigins : LabelsAfterRigid(g, tr) = seq_future_poses

\* a window that moves and turns, so that a transform has something to change
C9_Witness ==
    /\ d_result = "ok"
    /\ \E g \in TestQuats, tr \in TestOrigins :
         /\ PySlice(RigidPositions(g, tr, pose_positions), seq_start_idx, seq_end_idx + num_pts)
              # frame_positions
         /\ PySlice(RigidOrientations(g, pose_orientations), seq_start_idx, seq_end_idx + num_pts)
              # frame_orientations
         /\ rot_from_quat(g) # Transpose(rot_from_quat(g))
         /\ LabelsAfterRigid(g, tr) = seq_future_poses
    /\ \E i \in 1..fix_seq_length : seq_future_poses[i][2] # <<0, 0, 0>>

\* C10: any two workers that have run setup() use the same master address and
\* the same master port.
C10_SameRendezvous ==
    \A r1 \in Ranks, r2 \in Ranks :
        (w_pc[r1] # "spawned" /\ w_pc[r2] # "spawned") =>
            /\ master_addr[r1] = master_addr[r2]
            /\ master_port[r1] = master_port[r2]

\* n copies of the sequence blk, one after the other
Rep(blk, n) == [i \in 1..(n * Len(blk)) |-> blk[((i - 1) % Len(blk)) + 1]]

\* the positions of ops that hold the call op
OpsAt(op) == {k \in 1..Len(ops) : ops[k] = op}

\* the in-loop truncation boundaries passed so far in the current window
BoundariesPassed == t \div optimize_per_n_step

\* the window ended with a partial segment and the final update was made
PartialFlushed == pc = "flushed" /\ seq_length % optimize_per_n_step # 0

\* C11: a worker that leaves main(), normally or by an exception, has
\* destroyed the process group it joined.
C11_TeardownOnEveryExit ==
    pc \in {"done", "raised"} => group = "destroyed"

\* C12 as stated: at every truncation boundary, the final partial one included,
\* the calls are zero_grad, backward, optimizer step, scheduler step and then
\* detach, each once.
C12_DetachLastAtEveryBoundary ==
    pc \in {"step", "flushed"} =>
        ops = Rep(OptimizerOps \o <<"detach">>,
                  BoundariesPassed + (IF PartialFlushed THEN 1 ELSE 0))

\* C12: at every in-loop truncation boundary the calls are detach, zero_grad,
\* backward, optimizer step, scheduler step, each once and in this order; the
\* final partial boundary makes the last four, in this order, and no detach.
C12_BoundaryCallOrder ==
    pc \in {"step", "flushed"} =>
        ops = Rep(<<"detach", "zero_grad", "backward", "step", "lr_step">>, BoundariesPassed)
              \o (IF PartialFlushed
                  THEN <<"zero_grad", "backward", "step", "lr_step">>
                  ELSE <<>>)

\* a finished window with two in-loop boundaries and a final partial one
C12_Witness ==
    /\ PartialFlushed
    /\ BoundariesPassed = 2
    /\ Len(ops) = 14

\* C13 as stated: right after every optimizer step, the final partial one
\* included, the loss accumulator is zero.
C13_ZeroAfterEveryStep ==
    (/\ pc \in {"step", "flushed"}
     /\ Len(bwd_log) > 0
     /\ (pc = "flushed" \/ t % optimize_per_n_step = 0)) => total_loss = IntZero

\* C13: right after every in-loop optimizer step the accumulator is zero, and
\* it is zero at step 0 of every window; after the final partial step it still
\* holds that segment's terms until the next window starts; every term is
\* divided by the truncation length; no step's loss is in two backward passes.
C13_AccumulatorResetInLoop ==
    /\ (pc = "step" /\ t % optimize_per_n_step = 0) => total_loss = IntZero
    /\ (pc = "flushed" /\ seq_length % optimize_per_n_step = 0) => total_loss = IntZero
    /\ PartialFlushed =>
         /\ ~total_loss.isInt
         /\ total_loss.terms = bwd_log[Len(bwd_log)].terms
    /\ pc \in {"step", "flushed"} =>
         /\ Len(term_div) = t
         /\ \A k \in 1..Len(term_div) : term_div[k] = optimize_per_n_step
         /\ total_loss.terms = {s \in 0..(t - 1) : s \div optimize_per_n_step = BoundariesPassed}
    /\ \A j \in 1..Len(bwd_log), k \in 1..Len(bwd_log) :
         j # k => bwd_log[j].terms \cap bwd_log[k].terms = {}

\* the second window of an epoch made an in-loop step and then ended on a
\* partial segment, whose terms the accumulator still holds
C13_Witness ==
    /\ PartialFlushed
    /\ batch_idx = 2
    /\ optimize_per_n_step >= 2
    /\ Len(bwd_log) >= 2
    /\ total_loss.terms # {}

\* C14: the hidden state is zero at step 0 of every window; within a window it
\* is the predictor's output of every step so far, so a detachment kept its
\* value and nothing zeroed it.
C14_HiddenZeroOnlyAtWindowStart ==
    pc \in {"step", "flushed"} =>
        /\ hidden.val = t
        /\ t = 0 => hidden = ZeroHidden
        /\ t > 0 => hidden # ZeroHidden

\* in the second window of an epoch, past a truncation boundary
C14_Witness ==
    /\ pc = "step"
    /\ batch_idx = 2
    /\ t > optimize_per_n_step
    /\ hidden.val = t
    /\ Len(bwd_log) >= 1

\* C15: an optimizer step whose loss is not finite is skipped and leaves the
\* weights as they were.
C15_NonFiniteStepSkipped ==
    /\ (last_update.made /\ ~last_update.finite) => ~last_update.applied
    /\ weights = "finite"

\* C16: every optimizer step follows a backward pass of its own (the gradient
\* all-reduce), so a window makes as many all-reduces as optimizer steps.
C16_OneAllReducePerUpdate ==
    /\ Cardinality(OpsAt("backward")) = Cardinality(OpsAt("step"))
    /\ Len(bwd_log) = Cardinality(OpsAt("step"))
    /\ \A k \in OpsAt("step") : k > 1 /\ ops[k - 1] = "backward"
    /\ \A k \in OpsAt("backward") : k < Len(ops) /\ ops[k + 1] = "step"

\* a window that made three updates, the last for a partial segment
C16_Witness ==
    /\ PartialFlushed
    /\ Cardinality(OpsAt("step")) = 3
    /\ Cardinality(OpsAt("backward")) = 3

\* C19: an error raised while a sample is fetched does not end the job.
C19_SampleErrorSkipped ==
    exc \in FetchErrors => pc # "raised"

\* the pose of source frame j: position and rotation matrix
FramePosition(j) == pose_positions[j + 1]

FrameRotation(j) == rot_from_quat(pose_orientations[j + 1])

\* C20: a returned window has exactly fix_seq_length frame pairs and
\* fix_seq_length labels; pair t is source frames (start + t - 1, start + t)
\* and label t holds the positions of the frames from start + t on, relative
\* to the position and in the local frame of frame start + t.
C20_PairsAndLabelsAligned ==
    d_result = "ok" =>
        /\ Len(input_img) = fix_seq_length
        /\ Len(seq_future_poses) = fix_seq_length
        /\ \A tt \in 0..(fix_seq_length - 1) :
             /\ input_img[tt + 1] = <<seq_start_idx + tt - 1, seq_start_idx + tt>>
             /\ Len(seq_future_poses[tt + 1]) >= 1
             /\ \A k \in 0..(Len(seq_future_poses[tt + 1]) - 1) :
                  seq_future_poses[tt + 1][k + 1] =
                      MatVec(Transpose(FrameRotation(seq_start_idx + tt)),
                             VecSub(FramePosition(seq_start_idx + tt + k),
                                    FramePosition(seq_start_idx + tt)))

\* a window that starts past frame 1, with a second pair and a label whose
\* second point is off the anchor
C20_Witness ==
    /\ d_result = "ok"
    /\ fix_seq_length >= 2
    /\ seq_start_idx >= 2
    /\ input_img[2] = <<seq_start_idx, seq_start_idx + 1>>
    /\ Len(seq_future_poses[2]) >= 2
    /\ seq_future_poses[2][2] # <<0, 0, 0>>

\* every worker has left main() through cleanup()
AllDone == \A r \in Ranks : w_pc[r] = "done"

\* C17: workers that finished an epoch made the same number of optimizer steps
\* (all-reduces) in it; and while no worker has failed, a worker that is done
\* has entered every all-reduce any other has, and some worker can move until
\* all are done.
C17_SameStepsPerEpoch ==
    /\ \A r \in Ranks, q \in Ranks, e \in 0..(dist_epochs - 1) :
         (w_epoch[r] > e /\ w_epoch[q] > e) => w_steps[r][e] = w_steps[q][e]
    /\ NoFailure =>
         /\ \A r \in Ranks, q \in Ranks : w_pc[q] = "done" => w_calls[q] >= w_calls[r]
         /\ AllDone \/ ENABLED SyncRun

\* two workers finished a first epoch of two optimizer steps each and one of
\* them waits in an all-reduce of the second epoch
C17_Witness ==
    /\ NoFailure
    /\ world_size = 2
    /\ w_epoch = [r \in Ranks |-> 1]
    /\ \A r \in Ranks : w_steps[r][0] = 2
    /\ \E r \in Ranks : w_pc[r] = "allreduce"

\* a worker waits in an all-reduce that the failed peer q has not entered
BlockedBy(r, q) ==
    /\ w_pc[r] = "allreduce"
    /\ w_pc[q] \in {"hung", "raised"}
    /\ w_calls[q] < w_calls[r]

\* C18: a worker blocked in a collective by a peer that hung or ended
\* abnormally can leave it: a timeout aborts it, or the job is torn down.
C18_BlockedWorkerLeaves ==
    \A r \in Ranks, q \in Ranks :
        BlockedBy(r, q) => ENABLED (WatchdogAborts(r) \/ SpawnTerminates)

\* C21: no validation pass ever runs: validation_step is never called, and
\* the skip message was printed once for every finished epoch whose number is
\* a multiple of ValEvery.
C21_ValidationNeverRuns ==
    /\ val_runs = 0
    /\ val_skipped = epoch \div ValEvery

\* the tenth epoch has ended: the skip message was printed, nothing validated
C21_Witness ==
    /\ pc = "epoch"
    /\ epoch = ValEvery
    /\ val_skipped = 1
    /\ val_runs = 0

\* some sequence of the dataset is long enough for a window
SomeLongEnough == \E i \in 1..Len(samples) : Len(samples[i]) >= PlanFixSeqLength

\* C22: a returned window is PlanFixSeqLength contiguous samples of the
\* sequence last asked for, from an offset in 0..(L - PlanFixSeqLength); and
\* a call that has ended has returned a window exactly when some sequence of
\* the dataset is long enough.
C22_ReturnsWhenSomeLongEnough ==
    /\ p_result = "ok" =>
         LET L == Len(samples[idx + 1])
         IN  /\ Len(seq_samples) = PlanFixSeqLength
             /\ seq_offset \in 0..(L - PlanFixSeqLength)
             /\ \A k \in 1..PlanFixSeqLength : seq_samples[k] = seq_offset + k - 1
    /\ p_result # "none" => (p_result = "ok" <=> SomeLongEnough)

====
